---- MODULE Spec2Model ----
(***************************************************************************)
(* Model of src/portfolio_optimizer.py: the PortfolioOptimizer object, its *)
(* six allocation strategies, calculate_portfolio_metrics and              *)
(* project_growth.                                                         *)
(*                                                                         *)
(* Numbers.  The code computes in IEEE-754 doubles (numpy float64).  A     *)
(* number is modelled as a pair <<n, d>>: for d > 0 the exact rational n/d *)
(* in lowest terms, and for d = 0 one of the three special values the      *)
(* numpy operations produce instead of raising: <<1,0>> is +inf, <<-1,0>>  *)
(* is -inf and <<0,0>> is NaN.  Rounding error is not modelled (the claims *)
(* about sums carry a tolerance for it); division by zero, inf - inf,      *)
(* 0 * inf and comparisons with NaN behave as numpy's do.  The only        *)
(* irrational operation, the square root, is rounded up to a multiple of   *)
(* 1/SqrtDen, so that it is monotone and zero exactly at zero.             *)
(*                                                                         *)
(* Assets (the columns of returns_df) are numbered 1..N; a weight map      *)
(* Dict[str, float] is the tuple of the weights in column order.           *)
(***************************************************************************)
EXTENDS Integers, Sequences, FiniteSets, TLC

\* ------------------------------------------------------------------ bounds
\* Most assets (columns) of a return matrix.
MaxAssets == 2
\* Most periods (rows) of a return matrix.
MaxRows == 3
\* Periodic returns are k / PeriodsPerYear with k in -MaxRet..MaxRet.
MaxRet == 1
\* Resolution of the square root: results are multiples of 1/SqrtDen.
SqrtDen == 100
\* Most trials of a maximum_sharpe search (max_iter).
MaxIter == 2
\* np.random.random draws k / RandDen with k in 0..RandDen-1, a grid on [0, 1).
RandDen == 2
\* Weights passed by a caller are multiples of 1/WeightDen in [0, 1].
WeightDen == 2
\* Longest projection horizon (years).
MaxYears == 2
\* Capitals are 1..MaxCapital.
MaxCapital == 2
\* Resolution of roots and logarithms: results are multiples of 1/LogDen.
LogDen == 4
\* The positions of the random generator that the model tells apart.
RngPeriod == 2

\* ------------------------------------------------------- program constants
\* "* 252  # Annualized"
PeriodsPerYear == 252

\* ----------------------------------------------------------------- numbers
NaN == <<0, 0>>
PosInf == <<1, 0>>
NegInf == <<-1, 0>>
Zero == <<0, 1>>
One == <<1, 1>>

Abs(x) == IF x < 0 THEN -x ELSE x
Sign(x) == IF x < 0 THEN -1 ELSE IF x > 0 THEN 1 ELSE 0

\* The arithmetic operators bind their arguments to values before using them
\* (the CHOOSE from a one-element set), so that an argument expression is
\* evaluated once however often the operator refers to it.
RECURSIVE Gcd(_, _)
Gcd(a, b) ==
    CHOOSE r \in {(IF b_ = 0 THEN a_ ELSE Gcd(b_, a_ % b_)) :
                  a_ \in {a}, b_ \in {b}} : TRUE

\* The number n/d in lowest terms with a positive denominator; n/0 is an
\* infinity of n's sign, 0/0 is NaN.
Norm(n, d) ==
    CHOOSE r \in {(IF d_ = 0 THEN <<Sign(n_), 0>>
              ELSE LET g == Gcd(Abs(n_), Abs(d_))
                       s == IF d_ < 0 THEN -1 ELSE 1
                   IN  <<(s * n_) \div g, (s * d_) \div g>>) :
                  n_ \in {n}, d_ \in {d}} : TRUE

FromInt(k) == <<k, 1>>
IsNaN(x) == x = NaN
IsFinite(x) == x[2] # 0

Neg(x) ==
    CHOOSE r \in {(<<-x_[1], x_[2]>>) :
                  x_ \in {x}} : TRUE

\* float64 addition: NaN is absorbing, inf + (-inf) is NaN.
Add(x, y) ==
    CHOOSE r \in {(IF IsNaN(x_) \/ IsNaN(y_) THEN NaN
              ELSE IF ~IsFinite(x_) THEN (IF ~IsFinite(y_) /\ y_ # x_ THEN NaN ELSE x_)
              ELSE IF ~IsFinite(y_) THEN y_
              ELSE LET g == Gcd(x_[2], y_[2])
                       l == (x_[2] \div g) * y_[2]
                   IN  Norm(x_[1] * (l \div x_[2]) + y_[1] * (l \div y_[2]), l)) :
                  x_ \in {x}, y_ \in {y}} : TRUE

Sub(x, y) == Add(x, Neg(y))

\* float64 multiplication: 0 * inf is NaN.
Mul(x, y) ==
    CHOOSE r \in {(LET g1 == Gcd(Abs(x_[1]), y_[2])
                  g2 == Gcd(Abs(y_[1]), x_[2])
              IN  IF x_[2] = 0 \/ y_[2] = 0 THEN <<x_[1] * y_[1], 0>>
                  ELSE Norm((x_[1] \div g1) * (y_[1] \div g2), (x_[2] \div g2) * (y_[2] \div g1))) :
                  x_ \in {x}, y_ \in {y}} : TRUE

\* 1/x on float64 arrays: 1/0 is +inf (a warning, not an exception).
Inv(x) ==
    CHOOSE r \in {(IF x_[2] = 0 THEN <<0, Abs(x_[1])>> ELSE Norm(x_[2], x_[1])) :
                  x_ \in {x}} : TRUE

\* numpy float64 division: x/0 is +-inf, 0/0 is NaN, nothing is raised.
Div(x, y) == Mul(x, Inv(y))

\* x < y on floats: False when either side is NaN.
Lt(x, y) ==
    CHOOSE r \in {(IF IsNaN(x_) \/ IsNaN(y_) THEN FALSE
              ELSE IF ~IsFinite(x_) \/ ~IsFinite(y_)
                   THEN (IF ~IsFinite(x_) /\ ~IsFinite(y_) THEN x_[1] < y_[1]
                         ELSE IF ~IsFinite(x_) THEN x_[1] < 0 ELSE y_[1] > 0)
              ELSE x_[1] * y_[2] < y_[1] * x_[2]) :
                  x_ \in {x}, y_ \in {y}} : TRUE

Gt(x, y) == Lt(y, x)
Le(x, y) == ~IsNaN(x) /\ ~IsNaN(y) /\ ~Lt(y, x)

\* Least s >= 0 with s * s >= m.
RECURSIVE CeilSqrtFrom(_, _)
CeilSqrtFrom(m, s) ==
    CHOOSE r \in {(IF s_ * s_ >= m_ THEN s_ ELSE CeilSqrtFrom(m_, s_ + 1)) :
                  m_ \in {m}, s_ \in {s}} : TRUE

\* np.sqrt: NaN for NaN and negatives, inf for inf, else the root rounded up
\* to a multiple of 1/SqrtDen.
Sqrt(x) ==
    CHOOSE r \in {(IF IsNaN(x_) \/ x_[1] < 0 THEN NaN
              ELSE IF ~IsFinite(x_) THEN PosInf
              ELSE LET m == (x_[1] * SqrtDen * SqrtDen + x_[2] - 1) \div x_[2]
                   IN  Norm(CeilSqrtFrom(m, 0), SqrtDen)) :
                  x_ \in {x}} : TRUE

\* A tuple given by its elements, evaluated once (a numpy array).
Vec(f) == <<>> \o f

\* Sum and dot product of tuples of numbers (left to right, as numpy's).
RECURSIVE SumTo(_, _)
SumTo(v, k) ==
    CHOOSE r \in {(IF k_ = 0 THEN Zero ELSE Add(SumTo(v_, k_ - 1), v_[k_])) :
                  v_ \in {v}, k_ \in {k}} : TRUE
Sum(v) == SumTo(v, Len(v))

Dot(u, v) ==
    CHOOSE r \in {(Sum(Vec([i \in 1..Len(u_) |-> Mul(u_[i], v_[i])]))) :
                  u_ \in {u}, v_ \in {v}} : TRUE

\* Matrix (a tuple of rows) times vector.
MatVec(m, v) ==
    CHOOSE r \in {(Vec([i \in 1..Len(m_) |-> Dot(m_[i], v_)])) :
                  m_ \in {m}, v_ \in {v}} : TRUE

Min2(a, b) == IF Lt(b, a) THEN b ELSE a
Max2(a, b) == IF Gt(b, a) THEN b ELSE a

\* ------------------------------------------------------------------- state
VARIABLES
    returns,         \* self.returns: [columns: the number of assets, rows: the return matrix]
    risk_free_rate,  \* self.risk_free_rate
    mean_returns,    \* self.mean_returns
    cov_matrix,      \* self.cov_matrix
    op,              \* the method called last ("init" after construction)
    args,            \* its arguments
    outcome,         \* "none" | "running" | "return" | "raise"
    value,           \* what it returned, or the exception it raised
    frame,           \* the local variables of a running maximum_sharpe
    rng,             \* NumPy's process-wide generator: its position in its stream
    portfolios,      \* the portfolios table of the database file
    now,             \* datetime.now(), in seconds
    calls,           \* the PortfolioManager calls made so far, with their results
    script           \* one run of alert_system.py as a script

vars ==
    <<returns, risk_free_rate, mean_returns, cov_matrix, op, args, outcome, value, frame, rng,
      portfolios, now, calls, script>>
self == <<returns, risk_free_rate, mean_returns, cov_matrix>>
\* What lies outside the optimizer.
others == <<portfolios, now, calls, script>>

N == returns.columns
T == Len(returns.rows)
Columns == 1..N

\* One column of a matrix of rows.
Col(rows, j) == Vec([t \in 1..Len(rows) |-> rows[t][j]])

\* DataFrame.mean() of each column: NaN for an empty frame.
ColumnMeans(r) ==
    Vec([j \in 1..r.columns |-> Div(Sum(Col(r.rows, j)), FromInt(Len(r.rows)))])

\* DataFrame.cov(): the sample covariance (ddof = 1), NaN with fewer than 2 rows.
Covariance(r) ==
    LET m == ColumnMeans(r)
        dev(t, j) == Sub(r.rows[t][j], m[j])
    IN  Vec([i \in 1..r.columns |-> Vec([j \in 1..r.columns |->
            Div(Sum(Vec([t \in 1..Len(r.rows) |-> Mul(dev(t, i), dev(t, j))])),
                FromInt(Len(r.rows) - 1))])])

Scale(v, k) == Vec([i \in 1..Len(v) |-> Mul(v[i], k)])

\* The return matrices of the model: T rows of N returns k / PeriodsPerYear.
ReturnValues == {Norm(k, PeriodsPerYear) : k \in -MaxRet..MaxRet}
ReturnMatrices ==
    UNION {{[columns |-> n, rows |-> rows] : rows \in [1..t -> [1..n -> ReturnValues]]} :
           <<n, t>> \in (1..MaxAssets) \X (2..MaxRows)}

\* risk_free_rate: 0 and the default 0.06.
RiskFreeRates == {Zero, <<3, 50>>}

\* The portfolios table as CREATE TABLE leaves it: no row, and no id given out.
NoTable == [rows |-> {}, seq |-> 0]

\* No run of the script has started.
NoScript == [pc |-> "idle"]

\* No maximum_sharpe is running.
NoFrame == [pc |-> "idle"]

\* PortfolioOptimizer.__init__
Init ==
    /\ returns \in ReturnMatrices
    /\ risk_free_rate \in RiskFreeRates
    /\ mean_returns = Scale(ColumnMeans(returns), FromInt(PeriodsPerYear))
    /\ cov_matrix = LET c == Covariance(returns)
                    IN  Vec([i \in Columns |-> Scale(c[i], FromInt(PeriodsPerYear))])
    /\ op = "init"
    /\ args = <<>>
    /\ outcome = "none"
    /\ value = <<>>
    /\ frame = NoFrame
    /\ rng = 0
    /\ portfolios = NoTable
    /\ now = 0
    /\ calls = <<>>
    /\ script = NoScript

\* Mutant of Returns: the call resets the optimizer's risk-free rate.
Returns_resetting_rate(name, a, v) ==
    /\ outcome = "none"
    /\ op' = name
    /\ args' = a
    /\ outcome' = "return"
    /\ value' = v
    /\ risk_free_rate' = Zero
    /\ UNCHANGED <<returns, mean_returns, cov_matrix, frame, rng, others>>

\* A method is called when the caller holds no pending result, and returns.
Returns(name, a, v) ==
    /\ outcome = "none"
    /\ op' = name
    /\ args' = a
    /\ outcome' = "return"
    /\ value' = v
    /\ UNCHANGED <<self, frame, rng, others>>

\* The caller is done with the result of its last call and goes on to the next.
Release ==
    /\ outcome \in {"return", "raise"}
    /\ op' = "init"
    /\ args' = <<>>
    /\ outcome' = "none"
    /\ value' = <<>>
    /\ UNCHANGED <<self, frame, rng, others>>

\* -------------------------------------------------------------- strategies
\* Mutant of equal_weight: one over the number of rows.
equal_weight_by_rows == Vec([j \in Columns |-> Norm(1, T)])

\* equal_weight: {stock: 1.0 / n_stocks for stock in columns}; with no column the
\* comprehension's body never runs and the map is empty.
equal_weight == Vec([j \in Columns |-> Norm(1, N)])

EqualWeight == Returns("equal_weight", <<>>, equal_weight)

\* returns.tail(lookback_days).sum(): each column's sum over the last rows.
TailRows(rows, k) ==
    IF k >= Len(rows) THEN rows ELSE SubSeq(rows, Len(rows) - k + 1, Len(rows))

\* Mutant of momentum_weighted: keeps the assets with momentum >= 0.
momentum_weighted_nonneg(lookback_days) ==
    LET momentum == Vec([j \in Columns |-> Sum(Col(TailRows(returns.rows, lookback_days), j))])
        positive == {j \in Columns : ~Lt(momentum[j], Zero)}
        total == Sum(Vec([j \in Columns |-> IF j \in positive THEN momentum[j] ELSE Zero]))
    IN  IF positive = {} THEN equal_weight
        ELSE Vec([j \in Columns |-> IF j \in positive THEN Div(momentum[j], total) ELSE Zero])

\* Mutant of momentum_weighted: the positive momenta are divided by the sum of
\* all momenta.
momentum_weighted_over_all(lookback_days) ==
    LET momentum == Vec([j \in Columns |-> Sum(Col(TailRows(returns.rows, lookback_days), j))])
        positive == {j \in Columns : Gt(momentum[j], Zero)}
        total == Sum(momentum)
    IN  IF positive = {} THEN equal_weight
        ELSE Vec([j \in Columns |-> IF j \in positive THEN Div(momentum[j], total) ELSE Zero])

\* momentum_weighted: the assets of positive trailing sum share the whole in
\* proportion to it, the others get 0.0; equal_weight when none is positive.

momentum_weighted(lookback_days) ==
    LET momentum == Vec([j \in Columns |-> Sum(Col(TailRows(returns.rows, lookback_days), j))])
        positive == {j \in Columns : Gt(momentum[j], Zero)}
        total == Sum(Vec([j \in Columns |-> IF j \in positive THEN momentum[j] ELSE Zero]))
    IN  IF positive = {} THEN equal_weight
        ELSE Vec([j \in Columns |-> IF j \in positive THEN Div(momentum[j], total) ELSE Zero])

MomentumWeighted ==
    \E lookback_days \in 1..MaxRows :
        Returns("momentum_weighted", <<lookback_days>>, momentum_weighted(lookback_days))

\* Mutant of KellyFraction: an asset that never loses is bet on at the cap.
KellyFraction_no_loss_at_cap(j, max_allocation) ==
    LET stock_returns == Col(returns.rows, j)
        idx == 1..Len(stock_returns)
        wins == {t \in idx : Gt(stock_returns[t], Zero)}
        losses == {t \in idx : Lt(stock_returns[t], Zero)}
        MeanOver(S) ==
            Div(Sum(Vec([t \in idx |-> IF t \in S THEN stock_returns[t] ELSE Zero])),
                FromInt(Cardinality(S)))
        p == Norm(Cardinality(wins), Len(stock_returns))
        q == Sub(One, p)
        avg_win == MeanOver(wins)
        avg_loss == LET m == MeanOver(losses) IN IF Lt(m, Zero) THEN Neg(m) ELSE m
        b == Div(avg_win, avg_loss)
        kelly_f == Div(Sub(Mul(p, b), q), b)
    IN  IF Len(stock_returns) = 0 THEN Zero
        ELSE IF wins = {} THEN Zero
        ELSE IF losses = {} THEN max_allocation
        ELSE IF avg_loss = Zero THEN Zero
        ELSE Max2(Zero, Min2(kelly_f, max_allocation))

\* One asset's Kelly fraction, clipped to [0, max_allocation].
KellyFraction(j, max_allocation) ==
    LET stock_returns == Col(returns.rows, j)
        idx == 1..Len(stock_returns)
        wins == {t \in idx : Gt(stock_returns[t], Zero)}
        losses == {t \in idx : Lt(stock_returns[t], Zero)}
        MeanOver(S) ==
            Div(Sum(Vec([t \in idx |-> IF t \in S THEN stock_returns[t] ELSE Zero])),
                FromInt(Cardinality(S)))
        p == Norm(Cardinality(wins), Len(stock_returns))
        q == Sub(One, p)
        avg_win == MeanOver(wins)
        avg_loss == LET m == MeanOver(losses) IN IF Lt(m, Zero) THEN Neg(m) ELSE m
        b == Div(avg_win, avg_loss)
        kelly_f == Div(Sub(Mul(p, b), q), b)
    IN  IF Len(stock_returns) = 0 THEN Zero
        ELSE IF wins = {} \/ losses = {} THEN Zero
        ELSE IF avg_loss = Zero THEN Zero
        ELSE Max2(Zero, Min2(kelly_f, max_allocation))

\* Mutant of kelly_criterion: max_allocation caps the normalised weights too.
kelly_criterion_capped_after(max_allocation) ==
    LET kelly_weights == Vec([j \in Columns |-> KellyFraction(j, max_allocation)])
        total == Sum(kelly_weights)
    IN  IF Gt(total, Zero)
        THEN Vec([j \in Columns |-> Min2(Div(kelly_weights[j], total), max_allocation)])
        ELSE equal_weight

\* Mutant of kelly_criterion: the clipped fractions are returned as they are.
kelly_criterion_unnormalised(max_allocation) ==
    LET kelly_weights == Vec([j \in Columns |-> KellyFraction(j, max_allocation)])
        total == Sum(kelly_weights)
    IN  IF Gt(total, Zero) THEN kelly_weights
        ELSE equal_weight

\* kelly_criterion: the clipped fractions over their total when it is positive,
\* else equal_weight.

kelly_criterion(max_allocation) ==
    LET kelly_weights == Vec([j \in Columns |-> KellyFraction(j, max_allocation)])
        total == Sum(kelly_weights)
    IN  IF Gt(total, Zero) THEN Vec([j \in Columns |-> Div(kelly_weights[j], total)])
        ELSE equal_weight

\* max_allocation: the default 0.25, and 0.5.
MaxAllocations == {<<1, 4>>, <<1, 2>>}

KellyCriterion ==
    \E max_allocation \in MaxAllocations :
        Returns("kelly_criterion", <<max_allocation>>, kelly_criterion(max_allocation))

\* Mutant of risk_parity: weights proportional to volatility.
risk_parity_by_volatility ==
    LET volatilities == Vec([j \in Columns |-> Sqrt(cov_matrix[j][j])])
        total == Sum(volatilities)
    IN  Vec([j \in Columns |-> Div(volatilities[j], total)])

\* risk_parity: inverse volatility weighting; 1/0 and inf/inf are not guarded.
risk_parity ==
    LET volatilities == Vec([j \in Columns |-> Sqrt(cov_matrix[j][j])])
        inv_vol == Vec([j \in Columns |-> Div(One, volatilities[j])])
        total == Sum(inv_vol)
    IN  Vec([j \in Columns |-> Div(inv_vol[j], total)])

RiskParity == Returns("risk_parity", <<>>, risk_parity)

\* Square matrices of numbers, as tuples of rows.
Identity(n) == Vec([i \in 1..n |-> Vec([j \in 1..n |-> IF i = j THEN One ELSE Zero])])
MatMul(a, b) == Vec([i \in 1..Len(a) |-> Vec([j \in 1..Len(a) |-> Dot(a[i], Col(b, j))])])
Trace(a) == Sum(Vec([i \in 1..Len(a) |-> a[i][i]]))
PlusScalar(a, c) ==
    Vec([i \in 1..Len(a) |-> Vec([j \in 1..Len(a) |-> IF i = j THEN Add(a[i][j], c) ELSE a[i][j]])])

\* The Faddeev-LeVerrier sequence of a: B_0 = I, c_k = -tr(a B_(k-1)) / k,
\* B_k = a B_(k-1) + c_k I; the c_k are the coefficients of a's characteristic
\* polynomial.
RECURSIVE FaddeevB(_, _)
FaddeevC(a, k) == Div(Neg(Trace(MatMul(a, FaddeevB(a, k - 1)))), FromInt(k))
FaddeevB(a, k) ==
    IF k = 0 THEN Identity(Len(a))
    ELSE PlusScalar(MatMul(a, FaddeevB(a, k - 1)), FaddeevC(a, k))

Lcm(a, b) == (a \div Gcd(a, b)) * b

RECURSIVE LcmTo(_, _)
LcmTo(dens, k) == IF k = 0 THEN 1 ELSE Lcm(LcmTo(dens, k - 1), dens[k])

\* The least common denominator of a matrix's entries.
CommonDen(a) == LcmTo(Vec([i \in 1..Len(a) |-> LcmTo(Vec([j \in 1..Len(a) |-> a[i][j][2]]), Len(a))]), Len(a))

\* The Moore-Penrose inverse of a symmetric positive semi-definite matrix.  With r
\* the rank (c_r is the last non-zero coefficient), on the range of a the inverse
\* is -B_(r-1)/c_r, so pinv(a) = a B_(r-1) B_(r-1) / c_r^2; the zero matrix for the
\* zero matrix.
MoorePenrose(a) ==
    LET n == Len(a)
        ranks == {k \in 1..n : FaddeevC(a, k) # Zero}
        r == CHOOSE k \in ranks : \A l \in ranks : l <= k
        b == FaddeevB(a, r - 1)
        c == FaddeevC(a, r)
        abb == MatMul(a, MatMul(b, b))
    IN  IF ranks = {} THEN Vec([i \in 1..n |-> Vec([j \in 1..n |-> Zero])])
        ELSE Vec([i \in 1..n |-> Vec([j \in 1..n |-> Div(Div(abb[i][j], c), c)])])

\* np.linalg.pinv(self.cov_matrix.values), computed on the integer matrix d * a
\* (pinv(a) = d * pinv(d * a)).  numpy drops the singular values below 1e-15 of
\* the largest, which is what treats a singular matrix as singular despite
\* rounding.  A matrix holding NaN has a NaN pseudo-inverse where the SVD returns.
Pinv(a) ==
    LET d == FromInt(CommonDen(a))
        mp == MoorePenrose(Vec([k \in 1..Len(a) |-> Scale(a[k], d)]))
    IN  IF \E i, j \in 1..Len(a) : ~IsFinite(a[i][j])
        THEN Vec([i \in 1..Len(a) |-> Vec([j \in 1..Len(a) |-> NaN])])
        ELSE Vec([i \in 1..Len(a) |-> Scale(mp[i], d)])

\* weights / weights.sum()
Normalised(weights) ==
    CHOOSE r \in {Vec([j \in 1..Len(w) |-> Div(w[j], total)]) :
                  w \in {weights}, total \in {Sum(weights)}} : TRUE

\* np.maximum(weights, 0)
Clipped(weights) ==
    CHOOSE r \in {Vec([j \in 1..Len(w) |-> Max2(w[j], Zero)]) : w \in {weights}} : TRUE

\* minimum_variance: pinv(Cov) 1, normalised, clipped at 0, renormalised; neither
\* division is guarded against a zero sum.
minimum_variance ==
    Normalised(Clipped(Normalised(MatVec(Pinv(cov_matrix), Vec([j \in Columns |-> One])))))

MinimumVariance == Returns("minimum_variance", <<>>, minimum_variance)

\* w @ cov_matrix @ w
Quadratic(w) ==
    CHOOSE r \in {(Dot(MatVec(cov_matrix, w_), w_)) :
                  w_ \in {w}} : TRUE

\* (ret - risk_free_rate) / vol of a weight vector, unguarded.
SharpeOf(w) ==
    CHOOSE r \in {(Div(Sub(Dot(w_, mean_returns), risk_free_rate), Sqrt(Quadratic(w_)))) :
                  w_ \in {w}} : TRUE

\* np.random.random(n): one vector of n draws from [0, 1).
RandomVectors == [Columns -> {Norm(k, RandDen) : k \in 0..(RandDen - 1)}]

\* maximum_sharpe(max_iter), up to the loop: best_sharpe = -inf, best_weights = None
\* (the empty tuple; a found vector w is held as <<w>>), and the loop's w is not
\* assigned yet (the empty tuple; the last vector drawn is held as <<w>>).
MaxSharpeCall ==
    \E max_iter \in 0..MaxIter :
        /\ outcome = "none"
        /\ op' = "maximum_sharpe"
        /\ args' = <<max_iter>>
        /\ outcome' = "running"
        /\ value' = <<>>
        /\ frame' = [pc |-> "loop", max_iter |-> max_iter, trial |-> 0,
                     best_sharpe |-> NegInf, best_weights |-> <<>>, w |-> <<>>]
        /\ UNCHANGED <<self, rng, others>>

\* Mutant of MaxSharpeTrial: a draw that ties with the best replaces it.
MaxSharpeTrial_keeping_latest ==
    /\ frame.pc = "loop"
    /\ frame.trial < frame.max_iter
    /\ \E r \in RandomVectors :
        \E drawn \in {Vec(r)} :
        \E w \in {Vec([j \in Columns |-> Div(drawn[j], Sum(drawn))])} :
        \E sharpe \in {SharpeOf(w)} :
            /\ frame' = IF Gt(sharpe, frame.best_sharpe) \/ sharpe = frame.best_sharpe
                        THEN [frame EXCEPT !.trial = @ + 1, !.best_sharpe = sharpe,
                                           !.best_weights = <<w>>, !.w = <<w>>]
                        ELSE [frame EXCEPT !.trial = @ + 1, !.w = <<w>>]
            /\ rng' = (rng + 1) % RngPeriod
            /\ UNCHANGED <<self, op, args, outcome, value, others>>

\* Mutant of MaxSharpeTrial: a better draw restarts the count of trials.
MaxSharpeTrial_restarting ==
    /\ frame.pc = "loop"
    /\ frame.trial < frame.max_iter
    /\ \E r \in RandomVectors :
        \E drawn \in {Vec(r)} :
        \E w \in {Vec([j \in Columns |-> Div(drawn[j], Sum(drawn))])} :
        \E sharpe \in {SharpeOf(w)} :
            /\ frame' = IF Gt(sharpe, frame.best_sharpe)
                        THEN [frame EXCEPT !.trial = 0, !.best_sharpe = sharpe,
                                           !.best_weights = <<w>>, !.w = <<w>>]
                        ELSE [frame EXCEPT !.trial = @ + 1, !.w = <<w>>]
            /\ rng' = (rng + 1) % RngPeriod
            /\ UNCHANGED <<self, op, args, outcome, value, others>>

\* One trial of the loop: draw, normalise, score, keep if strictly better.  The
\* draw is np.random.random(n), which reads the process-wide generator and
\* moves it on; what the stream holds at a position is not modelled, so the
\* vector drawn is any vector.
MaxSharpeTrial ==
    /\ frame.pc = "loop"
    /\ frame.trial < frame.max_iter
    /\ \E r \in RandomVectors :
        \E drawn \in {Vec(r)} :
        \E w \in {Vec([j \in Columns |-> Div(drawn[j], Sum(drawn))])} :
        \E sharpe \in {SharpeOf(w)} :
            /\ frame' = IF Gt(sharpe, frame.best_sharpe)
                        THEN [frame EXCEPT !.trial = @ + 1, !.best_sharpe = sharpe,
                                           !.best_weights = <<w>>, !.w = <<w>>]
                        ELSE [frame EXCEPT !.trial = @ + 1, !.w = <<w>>]
            /\ rng' = (rng + 1) % RngPeriod
            /\ UNCHANGED <<self, op, args, outcome, value, others>>

\* Mutant of MaxSharpeReturn: equal_weight is returned while best_weights is None.
MaxSharpeReturn_falling_back ==
    /\ op = "maximum_sharpe"
    /\ frame.pc = "loop"
    /\ frame.trial = frame.max_iter
    /\ frame' = NoFrame
    /\ outcome' = "return"
    /\ value' = IF frame.best_weights = <<>> THEN equal_weight ELSE frame.best_weights[1]
    /\ UNCHANGED <<self, op, args, rng, others>>

\* After the loop: dict(zip(columns, best_weights)), which raises TypeError while
\* best_weights is still None.
MaxSharpeReturn ==
    /\ op = "maximum_sharpe"
    /\ frame.pc = "loop"
    /\ frame.trial = frame.max_iter
    /\ frame' = NoFrame
    /\ IF frame.best_weights = <<>>
       THEN outcome' = "raise" /\ value' = "TypeError"
       ELSE outcome' = "return" /\ value' = frame.best_weights[1]
    /\ UNCHANGED <<self, op, args, rng, others>>

\* ----------------------------------------------------------------- metrics
\* Series.cumsum(): NaN entries stay NaN and are skipped by the running sum.
RECURSIVE CumSum(_, _)
CumSum(v, k) ==
    IF k = 0 THEN <<>>
    ELSE LET prev == CumSum(v, k - 1)
             seen == {t \in 1..(k - 1) : ~IsNaN(prev[t])}
             last == IF seen = {} THEN Zero
                     ELSE prev[CHOOSE t \in seen : \A u \in seen : u <= t]
         IN  Append(prev, IF IsNaN(v[k]) THEN NaN ELSE Add(last, v[k]))

\* The greatest (least) of the non-NaN values of a tuple at the indices S; NaN
\* when there is none (pandas skips NaN).
MaxOver(v, S) ==
    LET ok == {t \in S : ~IsNaN(v[t])}
    IN  IF ok = {} THEN NaN ELSE v[CHOOSE t \in ok : \A u \in ok : ~Lt(v[t], v[u])]
MinOver(v, S) ==
    LET ok == {t \in S : ~IsNaN(v[t])}
    IN  IF ok = {} THEN NaN ELSE v[CHOOSE t \in ok : \A u \in ok : ~Lt(v[u], v[t])]

\* (self.returns @ w).cumsum()
PortfolioCumulative(w) ==
    CumSum(Vec([t \in 1..T |-> Dot(returns.rows[t], w)]), T)

\* Mutant of RunningMax: the running maximum starts from 0, not from the first value.
RunningMax_from_zero(cumulative) ==
    Vec([t \in 1..Len(cumulative) |-> Max2(MaxOver(cumulative, 1..t), Zero)])

\* portfolio_cumulative.expanding().max()
RunningMax(cumulative) ==
    Vec([t \in 1..Len(cumulative) |-> MaxOver(cumulative, 1..t)])

\* Mutant of MaxDrawdown: the drawdown is measured from a peak that is at least 0.
MaxDrawdown_from_peak_above_zero(w) ==
    CHOOSE r \in {MinOver(Vec([t \in 1..T |-> Sub(cumulative[t], Max2(running_max[t], Zero))]), 1..T) :
                  cumulative \in {PortfolioCumulative(w)},
                  running_max \in {RunningMax(PortfolioCumulative(w))}} : TRUE

\* drawdown.min() of drawdown = portfolio_cumulative - running_max
MaxDrawdown(w) ==
    CHOOSE r \in {MinOver(Vec([t \in 1..T |-> Sub(cumulative[t], running_max[t])]), 1..T) :
                  cumulative \in {PortfolioCumulative(w)},
                  running_max \in {RunningMax(PortfolioCumulative(w))}} : TRUE

\* portfolio_return = np.dot(w, self.mean_returns)
PortfolioReturn(w) == Dot(w, mean_returns)

\* Mutant of calculate_portfolio_metrics: the Sharpe quotient without its guard.
calculate_portfolio_metrics_unguarded(weights) ==
    CHOOSE metrics \in
        {[annual_return |-> portfolio_return,
          annual_volatility |-> portfolio_vol,
          sharpe_ratio |-> Div(Sub(portfolio_return, risk_free_rate), portfolio_vol),
          max_drawdown |-> max_drawdown] :
            portfolio_return \in {PortfolioReturn(weights)},
            portfolio_vol \in {Sqrt(Quadratic(weights))},
            max_drawdown \in {MaxDrawdown(weights)}} : TRUE

calculate_portfolio_metrics(weights) ==
    CHOOSE metrics \in
        {[annual_return |-> portfolio_return,
          annual_volatility |-> portfolio_vol,
          sharpe_ratio |-> IF Gt(portfolio_vol, Zero)
                           THEN Div(Sub(portfolio_return, risk_free_rate), portfolio_vol)
                           ELSE Zero,
          max_drawdown |-> max_drawdown] :
            portfolio_return \in {PortfolioReturn(weights)},
            portfolio_vol \in {Sqrt(Quadratic(weights))},
            max_drawdown \in {MaxDrawdown(weights)}} : TRUE

\* The weight maps a caller passes: every map of grid weights, and the maps the
\* deterministic strategies return for this optimizer.
GridWeights == [Columns -> {Norm(k, WeightDen) : k \in 0..WeightDen}]
WeightInputs ==
    {Vec(g) : g \in GridWeights} \cup {equal_weight, minimum_variance, risk_parity}

CalculatePortfolioMetrics ==
    /\ outcome = "none"
    /\ \E weights \in WeightInputs :
        Returns("calculate_portfolio_metrics", <<weights>>,
                calculate_portfolio_metrics(weights))

\* ------------------------------------------------------------------ growth
\* x ** k for an integer k >= 0, by repeated multiplication.
RECURSIVE IntPow(_, _)
IntPow(x, k) == IF k = 0 THEN One ELSE Mul(IntPow(x, k - 1), x)

\* Least s >= from with (s / LogDen) ** y >= x.
RECURSIVE RootFrom(_, _, _)
RootFrom(x, y, s) ==
    IF ~Lt(IntPow(Norm(s, LogDen), y), x) THEN s ELSE RootFrom(x, y, s + 1)

\* x ** (1 / y) for a number x >= 0 and an integer y >= 1: x itself for y = 1
\* (x ** 1.0 is exact), else the root rounded up to a multiple of 1/LogDen.
Root(x, y) == IF y = 1 THEN x ELSE Norm(RootFrom(x, y, 0), LogDen)

\* Least s >= from with 2 ** s * d ** LogDen >= n ** LogDen.
RECURSIVE LogFrom(_, _, _)
LogFrom(n, d, s) ==
    IF (2 ^ s) * (d ^ LogDen) >= n ^ LogDen THEN s ELSE LogFrom(n, d, s + 1)

\* np.log, to base 2 (project_growth only divides one logarithm by another) and
\* rounded away from zero to a multiple of 1/LogDen, so that it is zero exactly at
\* 1 and odd under x -> 1/x: -inf at 0, NaN below 0, a warning and no exception.
Log(x) ==
    IF IsNaN(x) \/ x[1] < 0 THEN NaN
    ELSE IF ~IsFinite(x) THEN PosInf
    ELSE IF x[1] = 0 THEN NegInf
    ELSE IF x[1] >= x[2] THEN Norm(LogFrom(x[1], x[2], 0), LogDen)
    ELSE Norm(-LogFrom(x[2], x[1], 0), LogDen)

\* The value of `current` after k passes of the projection loop.
RECURSIVE Compounded(_, _, _)
Compounded(initial_capital, annual_return, k) ==
    IF k = 0 THEN initial_capital
    ELSE Mul(Compounded(initial_capital, annual_return, k - 1), Add(One, annual_return))

\* Mutant of YearsToTarget: log(target_capital) in place of log(target / initial).
YearsToTarget_log_of_target(initial_capital, target_capital, annual_return) ==
    IF Gt(annual_return, Zero)
    THEN Div(Log(target_capital), Log(Add(One, annual_return)))
    ELSE PosInf

\* Mutant of YearsToTarget: the guard is annual_return >= 0.
YearsToTarget_guard_ge(initial_capital, target_capital, annual_return) ==
    IF ~Lt(annual_return, Zero)
    THEN Div(Log(Div(target_capital, initial_capital)), Log(Add(One, annual_return)))
    ELSE PosInf

\* "Years to reach target": log(target / initial) / log(1 + annual_return) when
\* annual_return > 0 (False for NaN), else np.inf.
YearsToTarget(initial_capital, target_capital, annual_return) ==
    IF Gt(annual_return, Zero)
    THEN Div(Log(Div(target_capital, initial_capital)), Log(Add(One, annual_return)))
    ELSE PosInf

\* Mutant of project_growth: a point holds the value after the year's growth.
project_growth_compounding_first(initial_capital, target_capital, weights, years) ==
    CHOOSE growth \in
        {[projections |->
              Vec([k \in 1..(years + 1) |->
                  [year |-> k - 1,
                   value |-> Compounded(initial_capital, annual_return, k),
                   required_value |->
                       Mul(initial_capital, IntPow(Add(One, required_cagr), k - 1))]]),
          years_to_target |-> YearsToTarget(initial_capital, target_capital, annual_return),
          final_value |-> Compounded(initial_capital, annual_return, years + 1),
          required_cagr |-> required_cagr,
          projected_cagr |-> annual_return] :
            annual_return \in {PortfolioReturn(weights)},
            required_cagr \in {Sub(Root(Div(target_capital, initial_capital), years), One)}} : TRUE

\* project_growth for initial_capital > 0 and years >= 1 (Python raises
\* ZeroDivisionError on target_capital / 0 and on 1 / 0).  Of the metrics it
\* computes it reads annual_return only.
project_growth(initial_capital, target_capital, weights, years) ==
    CHOOSE growth \in
        {[projections |->
              Vec([k \in 1..(years + 1) |->
                  [year |-> k - 1,
                   value |-> Compounded(initial_capital, annual_return, k - 1),
                   required_value |->
                       Mul(initial_capital, IntPow(Add(One, required_cagr), k - 1))]]),
          years_to_target |-> YearsToTarget(initial_capital, target_capital, annual_return),
          final_value |-> Compounded(initial_capital, annual_return, years + 1),
          required_cagr |-> required_cagr,
          projected_cagr |-> annual_return] :
            annual_return \in {PortfolioReturn(weights)},
            required_cagr \in {Sub(Root(Div(target_capital, initial_capital), years), One)}} : TRUE

Capitals == {FromInt(c) : c \in 1..MaxCapital}

\* The allocations a caller projects: the grid maps and the risk_parity map,
\* which holds NaN when an asset has zero volatility.
GrowthWeights == {Vec(g) : g \in GridWeights} \cup {risk_parity}

ProjectGrowth ==
    /\ outcome = "none"
    /\ \E initial_capital \in Capitals, target_capital \in Capitals,
          weights \in GrowthWeights, years \in 1..MaxYears :
        Returns("project_growth", <<initial_capital, target_capital, weights, years>>,
                project_growth(initial_capital, target_capital, weights, years))

\* --------------------------------------------------------------- comparison
\* The defaults compare_all_strategies calls the strategies with.
DefaultMaxIter == 1000
DefaultLookback == 90
DefaultMaxAllocation == <<1, 4>>

\* round(x * scale) / scale, ties to even: the number a fixed-point format
\* displays; NaN and the infinities are displayed as such.
RoundHalfEven(x, scale) ==
    IF ~IsFinite(x) THEN x
    ELSE LET k == (x[1] * scale) \div x[2]
             twice == 2 * (x[1] * scale - k * x[2])
             up == twice > x[2] \/ (twice = x[2] /\ k % 2 = 1)
         IN  Norm(IF up THEN k + 1 ELSE k, scale)

\* f"{x:.2%}": x as a percentage with two decimals.
FormatPercent(x) == [format |-> ".2%", shown |-> RoundHalfEven(x, 10000)]

\* f"{x:.3f}": x with three decimals.
FormatFixed(x) == [format |-> ".3f", shown |-> RoundHalfEven(x, 1000)]

\* One row of the comparison: the metrics of one strategy's weights.
ComparisonRow(name, weights) ==
    CHOOSE row \in
        {("Strategy" :> name)
         @@ ("Annual Return" :> FormatPercent(metrics.annual_return))
         @@ ("Annual Volatility" :> FormatPercent(metrics.annual_volatility))
         @@ ("Sharpe Ratio" :> FormatFixed(metrics.sharpe_ratio))
         @@ ("Max Drawdown" :> FormatPercent(metrics.max_drawdown))
         @@ ("Return/Vol" :> IF Gt(metrics.annual_volatility, Zero)
                             THEN Div(metrics.annual_return, metrics.annual_volatility)
                             ELSE Zero) :
            metrics \in {calculate_portfolio_metrics(weights)}} : TRUE

\* compare_all_strategies, up to the loop of its maximum_sharpe() call: the
\* strategies dict is built in order, so equal_weight, risk_parity and
\* minimum_variance have returned.  Of the DefaultMaxIter trials the model runs
\* at most MaxIter.
CompareCall ==
    /\ outcome = "none"
    /\ op' = "compare_all_strategies"
    /\ args' = <<>>
    /\ outcome' = "running"
    /\ value' = <<>>
    /\ frame' = [pc |-> "loop",
                 max_iter |-> IF DefaultMaxIter < MaxIter THEN DefaultMaxIter ELSE MaxIter,
                 trial |-> 0, best_sharpe |-> NegInf, best_weights |-> <<>>, w |-> <<>>]
    /\ UNCHANGED <<self, rng, others>>

\* compare_all_strategies from the end of that loop: maximum_sharpe's return
\* raises TypeError out of the comparison while best_weights is None; otherwise
\* the last two strategies run and one row is built per strategy.
CompareReturn ==
    /\ op = "compare_all_strategies"
    /\ frame.pc = "loop"
    /\ frame.trial = frame.max_iter
    /\ frame' = NoFrame
    /\ IF frame.best_weights = <<>>
       THEN outcome' = "raise" /\ value' = "TypeError"
       ELSE /\ outcome' = "return"
            /\ value' = <<ComparisonRow("Equal Weight", equal_weight),
                          ComparisonRow("Risk Parity", risk_parity),
                          ComparisonRow("Minimum Variance", minimum_variance),
                          ComparisonRow("Maximum Sharpe", frame.best_weights[1]),
                          ComparisonRow("Momentum Weighted",
                                        momentum_weighted(DefaultLookback)),
                          ComparisonRow("Kelly Criterion",
                                        kelly_criterion(DefaultMaxAllocation))>>
    /\ UNCHANGED <<self, op, args, rng, others>>

Next ==
    \/ EqualWeight
    \/ ProjectGrowth
    \/ CalculatePortfolioMetrics
    \/ MaxSharpeCall
    \/ MaxSharpeTrial
    \/ MaxSharpeReturn
    \/ RiskParity
    \/ MinimumVariance
    \/ MomentumWeighted
    \/ KellyCriterion
    \/ CompareCall
    \/ CompareReturn
    \/ Release

Spec == Init /\ [][Next]_vars

\* Every operation, on optimizers built with the default risk_free_rate
\* (risk_free_rate: float = 0.06) from the shortest return matrices, two periods.
InitDefaultRate == Init /\ risk_free_rate = <<3, 50>> /\ T = 2

SpecDefaultRate == InitDefaultRate /\ [][Next]_vars

\* The six strategies alone.
NextStrategies ==
    \/ EqualWeight
    \/ RiskParity
    \/ MinimumVariance
    \/ MaxSharpeCall
    \/ MaxSharpeTrial
    \/ MaxSharpeReturn
    \/ MomentumWeighted
    \/ KellyCriterion
    \/ Release

SpecStrategies == Init /\ [][NextStrategies]_vars

\* calculate_portfolio_metrics alone.
NextMetrics ==
    \/ CalculatePortfolioMetrics
    \/ Release

SpecMetrics == Init /\ [][NextMetrics]_vars

\* project_growth alone.
NextGrowth ==
    \/ ProjectGrowth
    \/ Release

SpecGrowth == Init /\ [][NextGrowth]_vars

\* compare_all_strategies alone.
NextCompare ==
    \/ CompareCall
    \/ MaxSharpeTrial
    \/ CompareReturn
    \/ Release

SpecCompare == Init /\ [][NextCompare]_vars

\* maximum_sharpe alone, its thread always scheduled again: a loop iteration and
\* the return are straight-line code that nothing blocks.
NextMaxSharpe ==
    \/ MaxSharpeCall
    \/ MaxSharpeTrial
    \/ MaxSharpeReturn
    \/ Release

SpecMaxSharpeFair ==
    /\ Init
    /\ [][NextMaxSharpe]_vars
    /\ WF_vars(MaxSharpeTrial)
    /\ WF_vars(MaxSharpeReturn)

\* The matrices calculate_stock_returns can hand over with too little data: no
\* asset column, or fewer than 2 rows (pct_change().dropna() of 0, 1 or 2 price
\* rows).
InsufficientMatrices ==
    UNION {{[columns |-> n, rows |-> rows] : rows \in [1..t -> [1..n -> ReturnValues]]} :
           <<n, t>> \in {p \in (0..MaxAssets) \X (0..MaxRows) : p[1] = 0 \/ p[2] < 2}}

\* PortfolioOptimizer.__init__ on such a matrix: it checks nothing, so the
\* optimizer is built, with NaN in cov_matrix (and in mean_returns with no row).
InitInsufficient ==
    /\ returns \in InsufficientMatrices
    /\ risk_free_rate \in RiskFreeRates
    /\ mean_returns = Scale(ColumnMeans(returns), FromInt(PeriodsPerYear))
    /\ cov_matrix = LET c == Covariance(returns)
                    IN  Vec([i \in Columns |-> Scale(c[i], FromInt(PeriodsPerYear))])
    /\ op = "init"
    /\ args = <<>>
    /\ outcome = "none"
    /\ value = <<>>
    /\ frame = NoFrame
    /\ rng = 0
    /\ portfolios = NoTable
    /\ now = 0
    /\ calls = <<>>
    /\ script = NoScript

\* np.linalg.pinv of a matrix holding NaN: LAPACK's SVD reports no convergence
\* and numpy raises LinAlgError, where the build does not return NaN instead
\* (that outcome is MinimumVariance's).
MinimumVarianceNoSVD ==
    /\ outcome = "none"
    /\ \E i, j \in Columns : IsNaN(cov_matrix[i][j])
    /\ op' = "minimum_variance"
    /\ args' = <<>>
    /\ outcome' = "raise"
    /\ value' = "LinAlgError"
    /\ UNCHANGED <<self, frame, rng, others>>

\* The optimizer built on too little data, and every call on it.
NextInsufficient ==
    \/ EqualWeight
    \/ RiskParity
    \/ MinimumVariance
    \/ MinimumVarianceNoSVD
    \/ MaxSharpeCall
    \/ MaxSharpeTrial
    \/ MaxSharpeReturn
    \/ MomentumWeighted
    \/ KellyCriterion
    \/ CalculatePortfolioMetrics
    \/ Release

SpecInsufficient == InitInsufficient /\ [][NextInsufficient]_vars

\* ------------------------------------------------------- portfolio manager
\* Most PortfolioManager calls of one behaviour.
MaxCalls == 4
\* The clock reads 0..MaxClock.
MaxClock == 2

\* None, where a number is expected.
None == <<>>

PortfolioNames == {"Growth", "Income"}

\* What save_portfolio is called with: allocations {ticker: weight},
\* initial_capital and strategy; the other parameters keep their defaults.  An
\* initial_capital of None breaks the column's NOT NULL constraint.
SaveInputs ==
    {[allocations |-> ("TCS" :> One), initial_capital |-> FromInt(1),
      strategy |-> "Equal Weight"],
     [allocations |-> ("TCS" :> Norm(1, 4)) @@ ("INFY" :> Norm(3, 4)),
      initial_capital |-> FromInt(2), strategy |-> "Risk Parity"],
     [allocations |-> ("TCS" :> One), initial_capital |-> None, strategy |-> ""]}

\* json.dumps of a dict with string keys: the text of an object, one member per
\* key.  json.loads of that text: the dict of its members.
JsonDumps(d) == [object |-> {<<k, d[k]>> : k \in DOMAIN d}]
JsonLoads(text) ==
    [k \in {member[1] : member \in text.object} |->
        (CHOOSE member \in text.object : member[1] = k)[2]]

\* The rows SELECT ... WHERE name = ? finds.
RowsNamed(name) == {row \in portfolios.rows : row.name = name}

\* Mutant of SavedTable: the UPDATE sets created_at too.
SavedTable_resetting_created_at(name, input, at) ==
    IF RowsNamed(name) # {}
    THEN [portfolios EXCEPT !.rows =
            {IF row.name = name
             THEN [row EXCEPT !.initial_capital = input.initial_capital,
                              !.allocations = JsonDumps(input.allocations),
                              !.strategy = input.strategy,
                              !.created_at = at,
                              !.updated_at = at]
             ELSE row : row \in portfolios.rows}]
    ELSE [rows |-> portfolios.rows \cup
                    {[id |-> portfolios.seq + 1, name |-> name,
                      initial_capital |-> input.initial_capital,
                      allocations |-> JsonDumps(input.allocations),
                      strategy |-> input.strategy,
                      created_at |-> at, updated_at |-> at]},
          seq |-> portfolios.seq + 1]

\* The table after save_portfolio's UPDATE (a row of that name exists: every
\* column but id, name and created_at is set) or INSERT (a new row with the
\* next AUTOINCREMENT id, created_at = updated_at = now).
SavedTable(name, input, at) ==
    IF RowsNamed(name) # {}
    THEN [portfolios EXCEPT !.rows =
            {IF row.name = name
             THEN [row EXCEPT !.initial_capital = input.initial_capital,
                              !.allocations = JsonDumps(input.allocations),
                              !.strategy = input.strategy,
                              !.updated_at = at]
             ELSE row : row \in portfolios.rows}]
    ELSE [rows |-> portfolios.rows \cup
                    {[id |-> portfolios.seq + 1, name |-> name,
                      initial_capital |-> input.initial_capital,
                      allocations |-> JsonDumps(input.allocations),
                      strategy |-> input.strategy,
                      created_at |-> at, updated_at |-> at]},
          seq |-> portfolios.seq + 1]

\* save_portfolio: True after the commit; an sqlite3 error (here the NOT NULL
\* constraint on initial_capital) is caught before the commit and the call
\* returns False, leaving the table as it was.
SavePortfolio ==
    /\ Len(calls) < MaxCalls
    /\ \E name \in PortfolioNames, input \in SaveInputs :
        \E saved \in {input.initial_capital # None} :
            /\ portfolios' = IF saved THEN SavedTable(name, input, now) ELSE portfolios
            /\ op' = "save_portfolio"
            /\ args' = <<name, input>>
            /\ outcome' = "return"
            /\ value' = saved
            /\ calls' = Append(calls, [method |-> "save_portfolio", name |-> name,
                                       input |-> input, result |-> saved, at |-> now])
    /\ UNCHANGED <<self, frame, rng, now, script>>

\* What load_portfolio returns for no row.
NotFound == [found |-> FALSE]

\* load_portfolio: the dict of the row of that name, or None.
LoadPortfolio ==
    /\ Len(calls) < MaxCalls
    /\ \E name \in PortfolioNames :
        \E loaded \in {IF RowsNamed(name) = {} THEN NotFound
                       ELSE LET row == CHOOSE r \in RowsNamed(name) :
                                            \A q \in RowsNamed(name) : r.id <= q.id
                            IN  [found |-> TRUE, name |-> row.name,
                                 initial_capital |-> row.initial_capital,
                                 allocations |-> JsonLoads(row.allocations),
                                 strategy |-> row.strategy,
                                 created_at |-> row.created_at,
                                 updated_at |-> row.updated_at]} :
            /\ op' = "load_portfolio"
            /\ args' = <<name>>
            /\ outcome' = "return"
            /\ value' = loaded
            /\ calls' = Append(calls, [method |-> "load_portfolio", name |-> name,
                                       result |-> loaded, at |-> now])
    /\ UNCHANGED <<self, frame, rng, portfolios, now, script>>

\* delete_portfolio: DELETE ... WHERE name = ?, and True.
DeletePortfolio ==
    /\ Len(calls) < MaxCalls
    /\ \E name \in PortfolioNames :
        /\ portfolios' = [portfolios EXCEPT !.rows = @ \ RowsNamed(name)]
        /\ op' = "delete_portfolio"
        /\ args' = <<name>>
        /\ outcome' = "return"
        /\ value' = TRUE
        /\ calls' = Append(calls, [method |-> "delete_portfolio", name |-> name,
                                   result |-> TRUE, at |-> now])
    /\ UNCHANGED <<self, frame, rng, now, script>>

\* A second passes.
Tick ==
    /\ now < MaxClock
    /\ now' = now + 1
    /\ UNCHANGED <<self, op, args, outcome, value, frame, rng, portfolios, calls, script>>

\* PortfolioManager(): the table exists and is empty; no optimizer is built.
InitManager ==
    /\ returns = <<>>
    /\ risk_free_rate = <<>>
    /\ mean_returns = <<>>
    /\ cov_matrix = <<>>
    /\ op = "init"
    /\ args = <<>>
    /\ outcome = "none"
    /\ value = <<>>
    /\ frame = NoFrame
    /\ rng = 0
    /\ portfolios = NoTable
    /\ now = 0
    /\ calls = <<>>
    /\ script = NoScript

NextManager ==
    \/ SavePortfolio
    \/ LoadPortfolio
    \/ DeletePortfolio
    \/ Tick

SpecManager == InitManager /\ [][NextManager]_vars

\* -------------------------------------------------- alert_system.py as a script
\* Most alerts one check_all_portfolios finds.
MaxAlerts == 2

\* sys.argv[1]; "none" is a run without arguments.
Commands == {"check", "daily", "weekly", "help", "none"}

\* The emails one call of the command's method sends.  check_all_portfolios
\* sends one email per alert found; send_daily_digest and send_weekly_digest
\* return at once when their threshold flag is off and send one email
\* otherwise.  send_email_alert sends nothing unless email_enabled.
EmailsOf(s) ==
    IF ~s.email_enabled THEN <<>>
    ELSE IF s.command = "check"
         THEN [i \in 1..s.alerts |-> [kind |-> "alert", id |-> i]]
    ELSE IF s.digest THEN <<[kind |-> s.command, id |-> 0]>>
    ELSE <<>>

\* One pass through a CLI block: a known command calls its method once, any
\* other argument, or none, prints the usage line.
AfterCliBlock(s, next) ==
    IF s.command \in {"check", "daily", "weekly"}
    THEN [s EXCEPT !.pc = next, !.invoked = @ + 1, !.sent = @ \o EmailsOf(s)]
    ELSE [s EXCEPT !.pc = next]

\* python alert_system.py [command]: the interpreter, the argument, the alert
\* configuration and the alerts the data gives are the run's inputs.  The
\* f-string of the second send_email_alert has a backslash in its expression,
\* which interpreters before 3.12 reject.
RunScript ==
    /\ script.pc = "idle"
    /\ \E accepted \in BOOLEAN, command \in Commands, email_enabled \in BOOLEAN,
          digest \in BOOLEAN, alerts \in 0..MaxAlerts :
        script' = [pc |-> "compile", accepted |-> accepted, command |-> command,
                   email_enabled |-> email_enabled, digest |-> digest,
                   alerts |-> alerts, invoked |-> 0, sent |-> <<>>]
    /\ UNCHANGED <<self, op, args, outcome, value, frame, rng, portfolios, now, calls>>

\* The file is compiled as a whole before any statement runs: a SyntaxError
\* ends the run.
Compile ==
    /\ script.pc = "compile"
    /\ script' = [script EXCEPT !.pc = IF script.accepted THEN "first" ELSE "exit"]
    /\ UNCHANGED <<self, op, args, outcome, value, frame, rng, portfolios, now, calls>>

\* The first if __name__ == "__main__" block.
FirstCliBlock ==
    /\ script.pc = "first"
    /\ script' = AfterCliBlock(script, "second")
    /\ UNCHANGED <<self, op, args, outcome, value, frame, rng, portfolios, now, calls>>

\* The second if __name__ == "__main__" block, reached when the first is done.
SecondCliBlock ==
    /\ script.pc = "second"
    /\ script' = AfterCliBlock(script, "exit")
    /\ UNCHANGED <<self, op, args, outcome, value, frame, rng, portfolios, now, calls>>

\* Nothing has run: no optimizer, no manager call, no script.
InitScript ==
    /\ returns = <<>>
    /\ risk_free_rate = <<>>
    /\ mean_returns = <<>>
    /\ cov_matrix = <<>>
    /\ op = "none"
    /\ args = <<>>
    /\ outcome = "none"
    /\ value = <<>>
    /\ frame = NoFrame
    /\ rng = 0
    /\ portfolios = NoTable
    /\ now = 0
    /\ calls = <<>>
    /\ script = NoScript

NextScript ==
    \/ RunScript
    \/ Compile
    \/ FirstCliBlock
    \/ SecondCliBlock

SpecScript == InitScript /\ [][NextScript]_vars

\* ------------------------------------------------------------------ claims
StrategyNames ==
    {"equal_weight", "risk_parity", "minimum_variance", "maximum_sharpe",
     "momentum_weighted", "kelly_criterion"}

\* The call named by op has ended (returned or raised).
Ended == outcome \in {"return", "raise"}

\* A valid return matrix: at least 2 rows, at least 1 asset.
ValidMatrix == N >= 1 /\ T >= 2

\* Asset j's returns are all the same.
ConstantReturns(j) == \A t \in 1..T : returns.rows[t][j] = returns.rows[1][j]

\* C1: for every valid return matrix, each of the six strategies returns a weight
\* map whose weights sum to 1.0 (within 1e-6; exact arithmetic here).
C1_WeightsSumToOne ==
    (op \in StrategyNames /\ Ended /\ ValidMatrix)
        => (outcome = "return" /\ Sum(value) = One)

\* C2: for a return matrix with exactly one asset, each of the six strategies
\* returns weight 1.0 for that asset, whatever its returns are.
C2_SingleAssetGetsAll ==
    (op \in StrategyNames /\ Ended /\ N = 1 /\ T >= 2)
        => (outcome = "return" /\ value = <<One>>)

\* Asset j's sum of returns over the last lookback_days rows.
TrailingSum(j, lookback_days) ==
    LET first == IF lookback_days >= T THEN 1 ELSE T - lookback_days + 1
    IN  Sum(Vec([t \in 1..(T - first + 1) |-> returns.rows[first + t - 1][j]]))

NoPositiveMomentum(lookback_days) ==
    \A j \in Columns : ~Gt(TrailingSum(j, lookback_days), Zero)

\* C3: momentum_weighted, when no asset has a strictly positive sum of returns
\* over the trailing lookback window, returns exactly the map equal_weight
\* returns: 1/N for every asset.
C3_MomentumFallsBackToEqualWeight ==
    (op = "momentum_weighted" /\ Ended /\ ValidMatrix /\ NoPositiveMomentum(args[1]))
        => /\ outcome = "return"
           /\ value = equal_weight
           /\ \A j \in Columns : value[j] = Norm(1, N)

\* C3 witness: a fallback with two assets, one of negative and one of zero
\* momentum over a window shorter than the history.
C3_Witness ==
    /\ op = "momentum_weighted" /\ outcome = "return"
    /\ N = 2 /\ args[1] < T
    /\ NoPositiveMomentum(args[1])
    /\ \E j \in Columns : Lt(TrailingSum(j, args[1]), Zero)
    /\ \E j \in Columns : TrailingSum(j, args[1]) = Zero
    /\ value = <<Norm(1, 2), Norm(1, 2)>>

\* Asset j's return history contains no negative return.
NoLosses(j) == \A t \in 1..T : ~Lt(returns.rows[t][j], Zero)

\* C4 as stated: kelly_criterion gives weight 0 to every asset whose return
\* history contains no negative return, for every return matrix.
C4_NoLossAssetGetsZero ==
    (op = "kelly_criterion" /\ outcome = "return" /\ ValidMatrix)
        => \A j \in Columns : NoLosses(j) => value[j] = Zero

\* C4 amended: an asset with no negative return has Kelly fraction 0; it gets
\* weight 0 in the returned map when some asset has a positive clipped fraction,
\* and 1/N, the equal-weight fallback, when none has.
C4_NoLossAssetGetsZeroUnlessFallback ==
    (op = "kelly_criterion" /\ Ended /\ ValidMatrix)
        => /\ outcome = "return"
           /\ \A j \in Columns : NoLosses(j) =>
                /\ KellyFraction(j, args[1]) = Zero
                /\ value[j] = IF \E i \in Columns : Gt(KellyFraction(i, args[1]), Zero)
                              THEN Zero ELSE Norm(1, N)

\* C4 witness: two assets, one that never loses and gets 0, one with a positive
\* Kelly fraction that gets everything.
C4_Witness ==
    /\ op = "kelly_criterion" /\ outcome = "return" /\ N = 2
    /\ \E j \in Columns : NoLosses(j) /\ ~ConstantReturns(j) /\ value[j] = Zero
    /\ \E i \in Columns : ~NoLosses(i) /\ value[i] = One

\* C5: the annual_volatility calculate_portfolio_metrics reports for the
\* minimum_variance weights is at most the one it reports for the equal_weight
\* weights, on the optimizer's own return matrix.
C5_MinVarianceNotRiskierThanEqualWeight ==
    (op = "calculate_portfolio_metrics" /\ outcome = "return" /\ ValidMatrix
        /\ args[1] = minimum_variance)
        => Le(value.annual_volatility,
              calculate_portfolio_metrics(equal_weight).annual_volatility)

\* C6: calculate_portfolio_metrics raises nothing, and returns sharpe_ratio = 0
\* whenever the annual volatility it reports is 0.
C6_ZeroVolatilitySharpeIsZero ==
    (op = "calculate_portfolio_metrics" /\ Ended)
        => /\ outcome = "return"
           /\ value.annual_volatility = Zero => value.sharpe_ratio = Zero

\* C6 witness: zero volatility with an annual return different from the
\* risk-free rate, so that the unguarded quotient would not be 0.
C6_Witness ==
    /\ op = "calculate_portfolio_metrics" /\ outcome = "return"
    /\ value.annual_volatility = Zero
    /\ Gt(value.annual_return, risk_free_rate)
    /\ Gt(risk_free_rate, Zero)
    /\ value.sharpe_ratio = Zero

\* The running sum of the weighted periodic returns, up to period t.
RunningSum(w, t) == Sum(Vec([u \in 1..t |-> Dot(returns.rows[u], w)]))

StrictlyIncreasing(w) ==
    \A t \in 1..(T - 1) : Lt(RunningSum(w, t), RunningSum(w, t + 1))

\* C7: calculate_portfolio_metrics reports max_drawdown = 0 whenever the
\* portfolio's cumulative return series is strictly increasing.
C7_NoDrawdownWhenIncreasing ==
    (op = "calculate_portfolio_metrics" /\ outcome = "return" /\ ValidMatrix
        /\ StrictlyIncreasing(args[1]))
        => value.max_drawdown = Zero

\* C7 witness: three periods, a strictly increasing cumulative series that
\* starts below zero.
C7_Witness ==
    /\ op = "calculate_portfolio_metrics" /\ outcome = "return"
    /\ T = 3
    /\ StrictlyIncreasing(args[1])
    /\ Lt(RunningSum(args[1], 1), Zero)
    /\ value.max_drawdown = Zero

\* The annual return of the allocation passed to project_growth.
GrowthReturn == PortfolioReturn(args[3])

C9_UnreachableTargetIsInfinite ==
    (op = "project_growth" /\ Ended)
        => /\ Le(GrowthReturn, Zero) => (outcome = "return" /\ value.years_to_target = PosInf)
           /\ (outcome = "return" /\ IsFinite(value.years_to_target)) => Gt(GrowthReturn, Zero)

\* C9 witness: an annual return of exactly 0 with a target equal to the initial
\* capital, where log(1)/log(1) would be NaN.
C9_Witness ==
    /\ op = "project_growth" /\ outcome = "return"
    /\ GrowthReturn = Zero
    /\ args[1] = args[2]
    /\ value.years_to_target = PosInf

\* C10: final_value is the projected value at the horizon: the value of the last
\* projection point, whose year is the horizon.
C10_FinalValueIsLastProjection ==
    (op = "project_growth" /\ outcome = "return")
        => LET last == value.projections[Len(value.projections)]
           IN  last.year = args[4] /\ value.final_value = last.value

\* Asset j's annualized volatility, as risk_parity computes it.
Volatility(j) == Sqrt(cov_matrix[j][j])

\* C15: risk_parity never divides by zero: when some asset has zero variance the
\* call either raises or gives that asset weight 0, and returns no infinite or
\* NaN weight.
C15_RiskParityGuardsZeroVariance ==
    (op = "risk_parity" /\ Ended /\ ValidMatrix
        /\ \E j \in Columns : cov_matrix[j][j] = Zero)
        => \/ outcome = "raise"
           \/ \A j \in Columns :
                /\ IsFinite(value[j])
                /\ cov_matrix[j][j] = Zero => value[j] = Zero

\* C16: equal_weight has one entry per asset and assigns exactly 1/N to each,
\* for every N >= 1.
C16_EqualWeightIsOneOverN ==
    (op = "equal_weight" /\ Ended /\ N >= 1)
        => /\ outcome = "return"
           /\ Len(value) = N
           /\ \A j \in Columns : value[j] = Norm(1, N)

\* C16 witness: two assets over three rows, one half each.
C16_Witness ==
    /\ op = "equal_weight" /\ outcome = "return"
    /\ N = 2 /\ T = 3
    /\ value = <<Norm(1, 2), Norm(1, 2)>>

\* C17: risk_parity weights are inversely proportional to volatility: for any
\* two assets of positive volatility, weight_i * sigma_i = weight_j * sigma_j.
C17_RiskParityInverseVolatility ==
    (op = "risk_parity" /\ outcome = "return" /\ ValidMatrix)
        => \A i, j \in Columns :
            (Gt(Volatility(i), Zero) /\ Gt(Volatility(j), Zero))
                => Mul(value[i], Volatility(i)) = Mul(value[j], Volatility(j))

\* C17 witness: two assets of different positive volatility, the calmer one
\* with the larger weight.
C17_Witness ==
    /\ op = "risk_parity" /\ outcome = "return" /\ N = 2
    /\ Gt(Volatility(1), Zero)
    /\ Lt(Volatility(1), Volatility(2))
    /\ Gt(value[1], value[2])
    /\ Gt(value[2], Zero)

\* The call that just returned took its fallback branch: momentum_weighted found
\* no positive momentum, kelly_criterion a total of 0.
FellBack ==
    IF op = "momentum_weighted"
    THEN NoPositiveMomentum(args[1])
    ELSE \A j \in Columns : ~Gt(KellyFraction(j, args[1]), Zero)

\* C14: a fallback of momentum_weighted or kelly_criterion is observable.  The
\* call leaves nothing behind but its return value (no field of the optimizer
\* and no log records the branch taken), so the return value must tell the two
\* apart: it is the equal-weight map exactly when the call fell back.
C14_FallbackIsObservable ==
    (op \in {"momentum_weighted", "kelly_criterion"} /\ outcome = "return"
        /\ ValidMatrix)
        => (value = equal_weight <=> FellBack)

\* C12: on a return matrix with fewer than 2 rows or no asset column, no call
\* returns a value: every call fails with an insufficient-data error.
C12_InsufficientDataAborts ==
    (Ended /\ ~ValidMatrix)
        => (outcome = "raise" /\ value = "InsufficientDataError")

\* The columns the comparison table must carry, years-to-target and the final
\* projected value under the names the table would give them.
RequiredColumns ==
    {"Strategy", "Annual Return", "Annual Volatility", "Sharpe Ratio",
     "Max Drawdown", "Years to Target", "Final Value"}

\* C11: compare_all_strategies returns exactly six rows, one per strategy in
\* order, and every row carries the strategy name, annual return, annual
\* volatility, Sharpe ratio, max drawdown, years-to-target and final value.
C11_CompareRowsComplete ==
    (op = "compare_all_strategies" /\ outcome = "return")
        => /\ Len(value) = 6
           /\ <<value[1]["Strategy"], value[2]["Strategy"], value[3]["Strategy"],
                value[4]["Strategy"], value[5]["Strategy"], value[6]["Strategy"]>>
                = <<"Equal Weight", "Risk Parity", "Minimum Variance",
                    "Maximum Sharpe", "Momentum Weighted", "Kelly Criterion">>
           /\ \A k \in 1..6 : RequiredColumns \subseteq DOMAIN value[k]

\* C13: a failure or degenerate result inside one strategy never aborts the
\* comparison: it ends by returning the rows of at least the other five.
C13_CompareNeverAborts ==
    (op = "compare_all_strategies" /\ Ended /\ ValidMatrix)
        => (outcome = "return" /\ Len(value) >= 5)

\* C19: the six strategies share no mutable state: no step of a strategy call
\* writes anything another call reads or writes, neither the optimizer's fields
\* nor the random source maximum_sharpe draws from.
C19_StrategiesShareNoMutableState == [][self' = self /\ rng' = rng]_vars

\* C18: the snapshot is immutable: no step of any call changes the return
\* matrix, the mean returns, the covariance matrix or the risk-free rate, and
\* the arguments of a call (the weights map among them) stay as passed while
\* the call runs and after it returns.
C18_SnapshotIsImmutable ==
    [][/\ self' = self
       /\ (op' = op /\ outcome # "none") => args' = args]_vars

\* C18 witness: a whole comparison has returned on a two-asset optimizer whose
\* fields still hold what the constructor computed.
C18_Witness ==
    /\ op = "compare_all_strategies" /\ outcome = "return" /\ N = 2
    /\ mean_returns = Scale(ColumnMeans(returns), FromInt(PeriodsPerYear))
    /\ risk_free_rate = <<3, 50>>

\* C20: maximum_sharpe always terminates: each trial advances the count by one
\* and leaves max_iter alone, the loop is left only after exactly max_iter
\* trials, and every call that is running ends.
C20_MaximumSharpeTerminates ==
    /\ [][/\ (frame.pc = "loop" /\ frame'.pc = "loop")
                => (frame'.trial = frame.trial + 1 /\ frame'.max_iter = frame.max_iter)
          /\ (frame.pc = "loop" /\ frame'.pc = "idle")
                => frame.trial = frame.max_iter]_vars
    /\ (op = "maximum_sharpe" /\ outcome = "running")
            ~> (op = "maximum_sharpe" /\ Ended)

\* C20 witness: a call of the largest max_iter has returned a weight map.
C20_Witness ==
    /\ op = "maximum_sharpe" /\ outcome = "return"
    /\ args[1] = MaxIter /\ MaxIter > 0

\* The sum of the strictly positive trailing sums.
PositiveMomentumSum(lookback_days) ==
    Sum(Vec([j \in Columns |->
        IF Gt(TrailingSum(j, lookback_days), Zero) THEN TrailingSum(j, lookback_days)
        ELSE Zero]))

\* C21: momentum_weighted, when at least one asset has strictly positive
\* trailing momentum, returns a map with an entry for every asset: exactly 0 for
\* an asset of non-positive momentum, and momentum / (sum of the positive
\* momenta) for an asset of positive momentum.
C21_MomentumWeightsPositiveShare ==
    (op = "momentum_weighted" /\ Ended /\ ValidMatrix /\ ~NoPositiveMomentum(args[1]))
        => /\ outcome = "return"
           /\ DOMAIN value = Columns
           /\ \A j \in Columns :
                value[j] = IF Gt(TrailingSum(j, args[1]), Zero)
                           THEN Div(TrailingSum(j, args[1]), PositiveMomentumSum(args[1]))
                           ELSE Zero

\* C21 witness: of two assets one has positive and one negative momentum, and
\* the positive one gets everything.
C21_Witness ==
    /\ op = "momentum_weighted" /\ outcome = "return" /\ N = 2
    /\ \E i, j \in Columns :
        /\ Gt(TrailingSum(i, args[1]), Zero) /\ Lt(TrailingSum(j, args[1]), Zero)
        /\ value[i] = One /\ value[j] = Zero

\* Every asset's clipped Kelly fraction is 0.
AllKellyFractionsZero(max_allocation) ==
    \A j \in Columns : KellyFraction(j, max_allocation) = Zero

\* Each asset's clipped Kelly fraction over the sum of all of them.
KellyShares(max_allocation) ==
    Vec([j \in Columns |->
        Div(KellyFraction(j, max_allocation),
            Sum(Vec([i \in Columns |-> KellyFraction(i, max_allocation)])))])

\* C22 as stated: kelly_criterion returns the equal-weight map exactly when every
\* asset's clipped Kelly fraction is 0, and otherwise each asset's clipped
\* fraction divided by the sum of all clipped fractions.
C22_KellyEqualWeightExactlyWhenAllZero ==
    (op = "kelly_criterion" /\ outcome = "return" /\ ValidMatrix)
        => /\ (value = equal_weight) <=> AllKellyFractionsZero(args[1])
           /\ ~AllKellyFractionsZero(args[1]) => value = KellyShares(args[1])

\* C22 amended: kelly_criterion returns the equal-weight map when every asset's
\* clipped Kelly fraction is 0, and otherwise each asset's clipped fraction
\* divided by the sum of all clipped fractions (which is the equal-weight map
\* too when the fractions are all equal).
C22_KellyEqualWeightWhenAllZero ==
    (op = "kelly_criterion" /\ Ended /\ ValidMatrix)
        => /\ outcome = "return"
           /\ value = IF AllKellyFractionsZero(args[1]) THEN equal_weight
                      ELSE KellyShares(args[1])

\* C22 witness: of two assets that both win and lose, one has a positive
\* clipped fraction and gets everything, the other has fraction 0.
C22_Witness ==
    /\ op = "kelly_criterion" /\ outcome = "return" /\ N = 2
    /\ \A j \in Columns : ~NoLosses(j)
    /\ \E i, j \in Columns :
        /\ Gt(KellyFraction(i, args[1]), Zero) /\ KellyFraction(j, args[1]) = Zero
        /\ value[i] = One /\ value[j] = Zero

\* C23: every weight returned by every strategy is non-negative (0 <= weight,
\* which is false of NaN); in particular minimum_variance returns no negative
\* weight for any covariance matrix.
C23_WeightsNonNegative ==
    (op \in StrategyNames /\ outcome = "return" /\ ValidMatrix)
        => \A j \in Columns : Le(Zero, value[j])

\* C24: project_growth returns exactly years + 1 projection points, for the
\* years 0, 1, ..., years in ascending order; the point of year y has value
\* initial_capital * (1 + annual_return) ** y (initial_capital for year 0) and
\* required_value initial_capital * (1 + required_cagr) ** y.
C24_ProjectionPoints ==
    (op = "project_growth" /\ Ended)
        => /\ outcome = "return"
           /\ Len(value.projections) = args[4] + 1
           /\ value.projections[1].value = args[1]
           /\ \A k \in 1..(args[4] + 1) :
                /\ value.projections[k].year = k - 1
                /\ value.projections[k].value
                        = Mul(args[1], IntPow(Add(One, GrowthReturn), k - 1))
                /\ value.projections[k].required_value
                        = Mul(args[1], IntPow(Add(One, value.required_cagr), k - 1))

\* C24 witness: a projection over the longest horizon at a finite non-zero
\* return, which has moved the value away from the initial capital.
C24_Witness ==
    /\ op = "project_growth" /\ outcome = "return"
    /\ args[4] = MaxYears /\ MaxYears > 1
    /\ IsFinite(GrowthReturn) /\ GrowthReturn # Zero
    /\ value.projections[MaxYears + 1].value # args[1]
    /\ value.projections[MaxYears + 1].value # value.projections[MaxYears].value

NeverFalls(w) ==
    \A t \in 1..(T - 1) : Le(RunningSum(w, t), RunningSum(w, t + 1))

\* Every weight of the map is a finite number.
FiniteWeights(w) == \A j \in Columns : IsFinite(w[j])

C27_MaximumSharpeRaisesWithoutBest ==
    /\ [](op = "maximum_sharpe" /\ Ended /\ args[1] = 0 => outcome = "raise")
    /\ [][/\ (frame.pc = "loop" /\ frame'.pc = "loop")
                => (frame'.best_weights # <<>>
                        <=> \/ frame.best_weights # <<>>
                            \/ Gt(SharpeOf(frame'.w[1]), NegInf))
          /\ (op = "maximum_sharpe" /\ frame.pc = "loop" /\ frame'.pc = "idle")
                => IF frame.best_weights = <<>>
                   THEN outcome' = "raise"
                   ELSE outcome' = "return" /\ value' = frame.best_weights[1]]_vars

\* C27 witness: a call with the most trials has raised: every trial's Sharpe
\* ratio was NaN or -inf.
C27_Witness ==
    /\ op = "maximum_sharpe" /\ outcome = "raise" /\ value = "TypeError"
    /\ args[1] = MaxIter /\ MaxIter > 0 /\ N = 2

\* The number of assets whose clipped Kelly fraction is positive.
PositiveKellyCount(max_allocation) ==
    Cardinality({j \in Columns : Gt(KellyFraction(j, max_allocation), Zero)})

\* C28 as stated: the weights kelly_criterion returns are not bounded by
\* max_allocation: whenever fewer than 1 / max_allocation assets have a positive
\* clipped fraction, some returned weight is strictly greater than
\* max_allocation.
C28_KellyWeightExceedsCap ==
    (op = "kelly_criterion" /\ outcome = "return" /\ ValidMatrix
        /\ Lt(Mul(FromInt(PositiveKellyCount(args[1])), args[1]), One))
        => \E j \in Columns : Gt(value[j], args[1])

\* C28 amended: the same whenever at least one asset, and fewer than
\* 1 / max_allocation assets, have a positive clipped fraction (with none the
\* call falls back to 1/N each, which exceeds max_allocation only when
\* N < 1 / max_allocation).
C28_KellyWeightExceedsCapUnlessFallback ==
    (op = "kelly_criterion" /\ Ended /\ ValidMatrix
        /\ PositiveKellyCount(args[1]) >= 1
        /\ Lt(Mul(FromInt(PositiveKellyCount(args[1])), args[1]), One))
        => /\ outcome = "return"
           /\ \E j \in Columns : Gt(value[j], args[1])

\* C28 witness: both of two assets have a positive fraction clipped at the
\* default max_allocation of 0.25, and both get 0.5.
C28_Witness ==
    /\ op = "kelly_criterion" /\ outcome = "return" /\ N = 2
    /\ args[1] = DefaultMaxAllocation
    /\ PositiveKellyCount(args[1]) = 2
    /\ \A j \in Columns : KellyFraction(j, args[1]) = args[1] /\ value[j] = Norm(1, 2)

\* The calls among the first k that still count for a name: the successful
\* save_portfolio calls made after the last delete_portfolio of that name.
StandingSaves(name, k) ==
    {i \in 1..k :
        /\ calls[i].method = "save_portfolio"
        /\ calls[i].name = name
        /\ calls[i].result
        /\ \A j \in (i + 1)..k :
            ~(calls[j].method = "delete_portfolio" /\ calls[j].name = name)}

\* C29: the table never holds two portfolios of one name, and load_portfolio(name)
\* returns the allocations, capital and strategy of the latest successful
\* save_portfolio(name) not followed by a delete_portfolio(name), with
\* created_at the time of the first such save since the last delete, and None
\* when there is no such save.
C29_LoadReturnsStandingSave ==
    /\ \A r1, r2 \in portfolios.rows : r1.name = r2.name => r1 = r2
    /\ (op = "load_portfolio" /\ outcome = "return") =>
        \E saves \in {StandingSaves(args[1], Len(calls) - 1)} :
            IF saves = {}
            THEN value = NotFound
            ELSE \E first \in saves, last \in saves :
                    /\ \A i \in saves : first <= i /\ i <= last
                    /\ value.found
                    /\ value.allocations = calls[last].input.allocations
                    /\ value.initial_capital = calls[last].input.initial_capital
                    /\ value.strategy = calls[last].input.strategy
                    /\ value.created_at = calls[first].at

\* C29 witness: a portfolio saved, saved again a second later with other
\* contents, and loaded.
C29_Witness ==
    /\ op = "load_portfolio"
    /\ outcome = "return"
    /\ value.found
    /\ value.created_at < value.updated_at
    /\ \E i \in 1..(Len(calls) - 1) :
        /\ calls[i].method = "save_portfolio"
        /\ calls[i].name = args[1]
        /\ calls[i].result
        /\ calls[i].input.allocations # value.allocations

\* C30: a run of the script with the command check, daily or weekly has, when it
\* ends, called the command's method exactly once and sent no email twice.
C30_RunsOperationOnce ==
    (script.pc = "exit" /\ script.command \in {"check", "daily", "weekly"}) =>
        /\ script.invoked = 1
        /\ \A i, j \in 1..Len(script.sent) : script.sent[i] = script.sent[j] => i = j

====
